---- MODULE Spec2Model ----
(***************************************************************************)
(* A model of icepick (src/icepick.ts): structural-sharing updates on      *)
(* frozen JavaScript object hierarchies.                                   *)
(*                                                                         *)
(* The JavaScript heap is a sequence of objects; an object's address is    *)
(* its index, so === on collections is equality of addresses.  Every       *)
(* library function is an operator from a machine state                    *)
(*   [h: heap, pn: prevNodes, prod: NODE_ENV = 'production', r, err]       *)
(* to the machine state after the call, with the returned value in r and   *)
(* the exception (if any) in err.                                          *)
(***************************************************************************)
EXTENDS Integers, Sequences, FiniteSets, TLC

VARIABLES heap, prevNodes, isProduction, pc, call, ret, err, pre, steps, log

vars == <<heap, prevNodes, isProduction, pc, call, ret, err, pre, steps, log>>

(***************************************************************************)
(* JavaScript values.  Primitives are small numbers (0 is falsy).          *)
(***************************************************************************)
Undef == [t |-> "undef", v |-> 0]
Null == [t |-> "null", v |-> 0]
Prim(n) == [t |-> "prim", v |-> n]
Ref(a) == [t |-> "ref", v |-> a]

IsRef(v) == v.t = "ref"
Nullish(v) == v.t \in {"undef", "null"}
Truthy(v) == ~Nullish(v) /\ ~(v.t = "prim" /\ v.v = 0)

Range(s) == {s[i] : i \in 1..Len(s)}

RECURSIVE Reverse(_)
Reverse(s) == IF s = <<>> THEN <<>> ELSE Append(Reverse(Tail(s)), Head(s))

(***************************************************************************)
(* Property keys are strings; these are the array indices, in order.       *)
(***************************************************************************)
IndexKeys == <<"0", "1", "2", "3", "4", "5", "6", "7">>
IsIndex(k) == \E i \in 1..Len(IndexKeys) : IndexKeys[i] = k
Idx(k) == (CHOOSE i \in 1..Len(IndexKeys) : IndexKeys[i] = k) - 1
KeyOfIdx(i) == IndexKeys[i + 1]

(***************************************************************************)
(* Objects.  kind: "obj" ({}), "nobj" (Object.create(null)), "arr",         *)
(* "inst" (new Foo(), a Date) or "fn" (a function).  keys is Object.keys   *)
(* order: indices ascending, then the other keys in insertion order.       *)
(***************************************************************************)
EmptyProps == [k \in {} |-> Undef]

NewObject(kind) ==
  [kind |-> kind, frozen |-> FALSE, keys |-> <<>>, props |-> EmptyProps, len |-> 0]

InsertKey(keys, k) ==
  IF IsIndex(k)
    THEN LET n == Cardinality({i \in 1..Len(keys) :
                                 IsIndex(keys[i]) /\ Idx(keys[i]) < Idx(k)})
         IN SubSeq(keys, 1, n) \o <<k>> \o SubSeq(keys, n + 1, Len(keys))
    ELSE Append(keys, k)

\* o[k] = v on an extensible object
SetProp(o, k, v) ==
  IF k \in DOMAIN o.props
    THEN [o EXCEPT !.props = [x \in DOMAIN o.props |-> IF x = k THEN v ELSE o.props[x]]]
    ELSE [o EXCEPT
            !.keys = InsertKey(o.keys, k),
            !.props = [x \in DOMAIN o.props \cup {k} |-> IF x = k THEN v ELSE o.props[x]],
            !.len = IF o.kind = "arr" /\ IsIndex(k) /\ Idx(k) >= o.len
                      THEN Idx(k) + 1 ELSE o.len]

\* delete o[k]
DelProp(o, k) ==
  IF k \in DOMAIN o.props
    THEN [o EXCEPT
            !.keys = SelectSeq(o.keys, LAMBDA x : x # k),
            !.props = [x \in DOMAIN o.props \ {k} |-> o.props[x]]]
    ELSE o

\* coll[key] for a non-nullish coll
Get(h, v, k) ==
  IF IsRef(v) /\ k \in DOMAIN h[v.v].props THEN h[v.v].props[k] ELSE Undef

\* coll.hasOwnProperty(key)
HasOwn(h, v, k) == IsRef(v) /\ k \in DOMAIN h[v.v].props

\* Object.keys(v) for a non-nullish v
ObjectKeys(h, v) == IF IsRef(v) THEN h[v.v].keys ELSE <<>>

TypeofObject(h, v) ==
  v.t = "null" \/ (IsRef(v) /\ h[v.v].kind \in {"obj", "nobj", "arr", "inst"})

\* Object.isFrozen(v): primitives count as frozen
IsFrozen(h, v) == IF IsRef(v) THEN h[v.v].frozen ELSE TRUE

\* Object.freeze(v)
ObjectFreeze(h, v) ==
  IF IsRef(v) THEN [h EXCEPT ![v.v].frozen = TRUE] ELSE h

(***************************************************************************)
(* Machine states and results.                                             *)
(***************************************************************************)
\* log: the arguments of each call the library made to a caller's function
Machine(h, pn, prod) ==
  [h |-> h, pn |-> pn, prod |-> prod, r |-> Undef, err |-> "none", log |-> <<>>]
Return(st, v) == [st EXCEPT !.r = v]
Throw(st, e) == [st EXCEPT !.r = Undef, !.err = e]
Failed(st) == st.err # "none"
Alloc(st, o) == [st EXCEPT !.h = Append(st.h, o), !.r = Ref(Len(st.h) + 1)]
\* sequencing: an exception in st skips the rest K of the function
Then(st, K(_)) == IF Failed(st) THEN st ELSE K(st)

(***************************************************************************)
(* Classification                                                          *)
(***************************************************************************)
isArray(h, v) == IsRef(v) /\ h[v.v].kind = "arr"

isObjectLike(h, v) == IsRef(v) /\ h[v.v].kind \in {"obj", "nobj"}

weCareAbout(h, v) == v.t # "null" /\ (isArray(h, v) \/ isObjectLike(h, v))

\* the keys forKeys visits, in the order it visits them
forKeys(h, v) ==
  IF isArray(h, v)
    THEN [i \in 1..h[v.v].len |-> KeyOfIdx(h[v.v].len - i)]
    ELSE Reverse(ObjectKeys(h, v))

(***************************************************************************)
(* clone                                                                   *)
(***************************************************************************)
RECURSIVE CopyKeys(_, _, _, _)
CopyKeys(newObj, h, v, idx) ==
  IF idx = 0 THEN newObj
  ELSE CopyKeys(SetProp(newObj, ObjectKeys(h, v)[idx], Get(h, v, ObjectKeys(h, v)[idx])),
                h, v, idx - 1)

cloneObj(st, v) ==
  Alloc(st, CopyKeys(NewObject(IF IsRef(v) /\ st.h[v.v].kind = "nobj" THEN "nobj" ELSE "obj"),
                     st.h, v, Len(ObjectKeys(st.h, v))))

\* Array.prototype.slice(): index properties only, holes kept
ArraySlice(o) ==
  LET ks == SelectSeq(o.keys, IsIndex)
  IN [kind |-> "arr", frozen |-> FALSE, keys |-> ks,
      props |-> [k \in Range(ks) |-> o.props[k]], len |-> o.len]

\* a clone that copies no key
clone_empty(st, v) ==
  Alloc(st, NewObject(IF isArray(st.h, v) THEN "arr" ELSE "obj"))

clone(st, v) ==
  IF isArray(st.h, v) THEN Alloc(st, ArraySlice(st.h[v.v])) ELSE cloneObj(st, v)

(***************************************************************************)
(* freezing                                                                *)
(***************************************************************************)
\* _freeze that was not replaced by identity in production mode
_freeze_everyMode(st, v) ==
  IF TypeofObject(st.h, v)
    THEN [st EXCEPT !.h = ObjectFreeze(st.h, v), !.r = v]
    ELSE Return(st, v)

_freeze(st, v) ==
  IF st.prod THEN Return(st, v)
  ELSE IF TypeofObject(st.h, v)
    THEN [st EXCEPT !.h = ObjectFreeze(st.h, v), !.r = v]
    ELSE Return(st, v)

RECURSIVE baseFreeze(_, _), FreezeProps(_, _, _, _)

\* a freeze of the top level only
baseFreeze_shallow(st, v) ==
  IF Nullish(v) THEN Throw([st EXCEPT !.pn = Append(st.pn, v)], "type")
  ELSE [st EXCEPT !.h = ObjectFreeze(st.h, v), !.r = v]

\* a freeze that stops at an ancestor instead of throwing
baseFreeze_skipAncestor(st, v) ==
  IF \E i \in 1..Len(st.pn) : st.pn[i] = v
    THEN Return(st, v)
  ELSE IF Nullish(v)
    THEN Throw([st EXCEPT !.pn = Append(st.pn, v)], "type")
  ELSE Then(FreezeProps([st EXCEPT !.pn = Append(st.pn, v)], v, forKeys(st.h, v), 1),
            LAMBDA s : [s EXCEPT !.pn = SubSeq(s.pn, 1, Len(s.pn) - 1),
                                 !.h = ObjectFreeze(s.h, v),
                                 !.r = v])

baseFreeze(st, v) ==
  IF \E i \in 1..Len(st.pn) : st.pn[i] = v
    THEN Throw(st, "cycle")
  ELSE IF Nullish(v)
    THEN Throw([st EXCEPT !.pn = Append(st.pn, v)], "type")   \* Object.keys(null)
  ELSE Then(FreezeProps([st EXCEPT !.pn = Append(st.pn, v)], v, forKeys(st.h, v), 1),
            LAMBDA s : [s EXCEPT !.pn = SubSeq(s.pn, 1, Len(s.pn) - 1),
                                 !.h = ObjectFreeze(s.h, v),
                                 !.r = v])

\* the callback of baseFreeze's forKeys, applied to ks[i], ks[i+1], ...
FreezeProps(st, v, ks, i) ==
  IF i > Len(ks) THEN st
  ELSE Then(IF weCareAbout(st.h, Get(st.h, v, ks[i]))
              THEN baseFreeze(st, Get(st.h, v, ks[i]))
              ELSE st,
            LAMBDA s : FreezeProps(s, v, ks, i + 1))

freezeIfNeeded(st, v) ==
  IF st.prod THEN Return(st, v)
  ELSE IF weCareAbout(st.h, v) /\ ~IsFrozen(st.h, v) THEN baseFreeze(st, v)
  ELSE Return(st, v)

freeze(st, v) == IF st.prod THEN Return(st, v) ELSE baseFreeze(st, v)

(***************************************************************************)
(* Single-level update                                                     *)
(***************************************************************************)
\* newObj[key] = value on the heap of st
Store(st, newObj, key, value) ==
  [st EXCEPT !.h[newObj.v] = SetProp(st.h[newObj.v], key, value)]

\* delete newObj[key] on the heap of st
Delete(st, newObj, key) ==
  [st EXCEPT !.h[newObj.v] = DelProp(st.h[newObj.v], key)]

\* assoc comparing with == (null equal to undefined) instead of ===
assoc_looseEq(st, coll, key, value) ==
  IF Nullish(coll) THEN Throw(st, "type")
  ELSE IF \/ Get(st.h, coll, key) = value
          \/ Nullish(Get(st.h, coll, key)) /\ Nullish(value)
    THEN _freeze(st, coll)
  ELSE Then(clone(st, coll),
            LAMBDA cloned :
              Then(freezeIfNeeded(cloned, value),
                   LAMBDA fv : _freeze(Store(fv, cloned.r, key, fv.r), cloned.r)))

\* assoc without the shortcut on an unchanged value
assoc_alwaysClone(st, coll, key, value) ==
  IF Nullish(coll) THEN Throw(st, "type")
  ELSE Then(clone(st, coll),
            LAMBDA cloned :
              Then(freezeIfNeeded(cloned, value),
                   LAMBDA fv : _freeze(Store(fv, cloned.r, key, fv.r), cloned.r)))

assoc(st, coll, key, value) ==
  IF Nullish(coll) THEN Throw(st, "type")
  ELSE IF Get(st.h, coll, key) = value THEN _freeze(st, coll)
  ELSE Then(clone(st, coll),
            LAMBDA cloned :
              Then(freezeIfNeeded(cloned, value),
                   LAMBDA fv : _freeze(Store(fv, cloned.r, key, fv.r), cloned.r)))

\* dissoc storing undefined under the key instead of removing it
dissoc_setUndefined(st, coll, key) ==
  IF Nullish(coll) THEN Throw(st, "type")
  ELSE Then(clone(st, coll),
            LAMBDA cloned : _freeze(Store(cloned, cloned.r, key, Undef), cloned.r))

\* dissoc deleting the key of coll itself
dissoc_inPlace(st, coll, key) ==
  IF Nullish(coll) THEN Throw(st, "type")
  ELSE _freeze(Delete(st, coll, key), coll)

dissoc(st, coll, key) ==
  IF Nullish(coll) THEN Throw(st, "type")
  ELSE Then(clone(st, coll),
            LAMBDA cloned : _freeze(Delete(cloned, cloned.r, key), cloned.r))

(***************************************************************************)
(* thaw                                                                    *)
(***************************************************************************)
RECURSIVE ThawFrom(_, _, _), ThawKeys(_, _, _, _, _, _)
\* thaw(coll) called while thaw is running on the collections anc; a frozen
\* collection met again below itself is thawed again without end
ThawFrom(st, coll, anc) ==
  IF ~weCareAbout(st.h, coll) \/ ~IsFrozen(st.h, coll) THEN Return(st, coll)
  ELSE IF coll.v \in anc THEN Throw(st, "stack")
  ELSE Then(Alloc(st, IF isArray(st.h, coll)
                        THEN [NewObject("arr") EXCEPT !.len = st.h[coll.v].len]
                        ELSE NewObject("obj")),
            LAMBDA made : ThawKeys(made, coll, made.r, forKeys(made.h, coll), 1,
                                   anc \cup {coll.v}))

\* the callback of thaw's forKeys, applied to ks[i], ks[i+1], ...
ThawKeys(st, coll, newColl, ks, i, anc) ==
  IF i > Len(ks) THEN Return(st, newColl)
  ELSE Then(ThawFrom(st, Get(st.h, coll, ks[i]), anc),
            LAMBDA t : ThawKeys(Store(t, newColl, ks[i], t.r), coll, newColl, ks, i + 1,
                                anc))

thaw(st, coll) == ThawFrom(st, coll, {})

(***************************************************************************)
(* Path-based update                                                       *)
(***************************************************************************)
RECURSIVE assocIn(_, _, _, _)
\* assocIn making a sequence where an intermediate is missing
assocIn_synthSequence(st, coll, path, value) ==
  IF Nullish(coll) THEN Throw(st, "type")
  ELSE IF Len(path) = 0 THEN Throw(st, "stack")
  ELSE IF Len(path) = 1 THEN assoc(st, coll, path[1], value)
  ELSE Then(IF Truthy(Get(st.h, coll, path[1]))
              THEN Return(st, Get(st.h, coll, path[1]))
              ELSE Alloc(st, NewObject("arr")),
            LAMBDA next :
              Then(assocIn(next, next.r, Tail(path), value),
                   LAMBDA inner : assoc(inner, coll, path[1], inner.r)))

assocIn(st, coll, path, value) ==
  IF Nullish(coll) THEN Throw(st, "type")
  ELSE IF Len(path) = 0 THEN Throw(st, "stack")   \* path.slice(1) stays empty
  ELSE IF Len(path) = 1 THEN assoc(st, coll, path[1], value)
  ELSE Then(IF Truthy(Get(st.h, coll, path[1]))
              THEN Return(st, Get(st.h, coll, path[1]))
              ELSE Alloc(st, NewObject("obj")),
            LAMBDA next :
              Then(assocIn(next, next.r, Tail(path), value),
                   LAMBDA inner : assoc(inner, coll, path[1], inner.r)))

RECURSIVE dissocIn(_, _, _)
dissocIn(st, coll, path) ==
  \* coll.hasOwnProperty: undefined on null, undefined and Object.create(null)
  IF Nullish(coll) \/ (IsRef(coll) /\ st.h[coll.v].kind = "nobj") THEN Throw(st, "type")
  ELSE IF Len(path) = 0 \/ ~HasOwn(st.h, coll, path[1]) THEN Return(st, coll)
  ELSE IF Len(path) = 1 THEN dissoc(st, coll, path[1])
  ELSE Then(dissocIn(st, Get(st.h, coll, path[1]), Tail(path)),
            LAMBDA inner : assoc(inner, coll, path[1], inner.r))

RECURSIVE getIn(_, _, _)
getIn(h, curr, path) ==
  IF Len(path) = 0 THEN curr
  ELSE getIn(h, IF Truthy(curr) THEN Get(h, curr, path[1]) ELSE Undef, Tail(path))

\* the callbacks handed to updateIn: the identity, a constant, and a doubling
\* (handed over only where a number is stored)
Callbacks == {"identity", "one", "double"}
ApplyCallback(cb, val) ==
  CASE cb = "identity" -> val
    [] cb = "one" -> Prim(1)
    [] OTHER -> Prim(val.v * 2)

\* callback(val): the call is logged, its result is in r
InvokeCallback(st, cb, val) ==
  [st EXCEPT !.log = Append(@, <<val>>), !.r = ApplyCallback(cb, val)]

\* updateIn handing the whole collection to the callback
updateIn_callbackOnColl(st, coll, path, callback) ==
  Then(InvokeCallback(st, callback, coll),
       LAMBDA called : assocIn(called, coll, path, called.r))

updateIn(st, coll, path, callback) ==
  Then(InvokeCallback(st, callback, getIn(st.h, coll, path)),
       LAMBDA called : assocIn(called, coll, path, called.r))

(***************************************************************************)
(* Array wrappers                                                          *)
(***************************************************************************)
\* [...arr]: a dense copy, holes read as undefined
Spread(h, arr) == [i \in 1..h[arr.v].len |-> Get(h, arr, KeyOfIdx(i - 1))]

ArrayOf(elems) ==
  [kind |-> "arr", frozen |-> FALSE,
   keys |-> [i \in 1..Len(elems) |-> KeyOfIdx(i - 1)],
   props |-> [k \in {KeyOfIdx(i - 1) : i \in 1..Len(elems)} |-> elems[Idx(k) + 1]],
   len |-> Len(elems)]

\* default sort order: by string, undefined last
SortRank(v) == IF v.t = "prim" THEN v.v ELSE IF v.t = "undef" THEN 1000 ELSE 100

RECURSIVE InsertSorted(_, _)
InsertSorted(sorted, v) ==
  IF sorted = <<>> THEN <<v>>
  ELSE IF SortRank(v) < SortRank(Head(sorted)) THEN <<v>> \o sorted
  ELSE <<Head(sorted)>> \o InsertSorted(Tail(sorted), v)

RECURSIVE SortElems(_)
SortElems(elems) ==
  IF elems = <<>> THEN <<>>
  ELSE InsertSorted(SortElems(SubSeq(elems, 1, Len(elems) - 1)), elems[Len(elems)])

MethodNames == {"push", "unshift", "pop", "shift", "reverse", "sort"}

ApplyMethod(methodName, elems, val) ==
  CASE methodName = "push" -> Append(elems, val)
    [] methodName = "unshift" -> <<val>> \o elems
    [] methodName = "pop" -> SubSeq(elems, 1, Len(elems) - 1)
    [] methodName = "shift" -> SubSeq(elems, 2, Len(elems))
    [] methodName = "reverse" -> Reverse(elems)
    [] OTHER -> SortElems(elems)

\* newArr.splice(0, newArr.length, ...elems) on the heap of st: new contents
Refill(st, newArr, elems) == [st EXCEPT !.h[newArr.v] = ArrayOf(elems)]

makeArrayMethod(st, methodName, arr, val) ==
  IF ~isArray(st.h, arr) THEN Throw(st, "type")
  ELSE Then(Alloc(st, ArrayOf(Spread(st.h, arr))),
            LAMBDA copied :
              Then(freezeIfNeeded(copied, val),
                   LAMBDA fv :
                     IF methodName = "sort" /\ fv.r # Undef THEN Throw(fv, "type")
                     ELSE _freeze(Refill(fv, copied.r,
                                         ApplyMethod(methodName, Spread(fv.h, copied.r), fv.r)),
                                  copied.r)))

RECURSIVE MapFreezeIfNeeded(_, _, _)
MapFreezeIfNeeded(st, args, i) ==
  IF i > Len(args) THEN st
  ELSE Then(freezeIfNeeded(st, args[i]), LAMBDA s : MapFreezeIfNeeded(s, args, i + 1))

Min(a, b) == IF a < b THEN a ELSE b

\* Array.prototype.splice on a dense sequence of elements
SpliceElems(elems, start, deleteCount, args) ==
  SubSeq(elems, 1, Min(start, Len(elems))) \o args
  \o SubSeq(elems,
            Min(start, Len(elems)) + Min(deleteCount, Len(elems) - Min(start, Len(elems))) + 1,
            Len(elems))

splice(st, arr, start, deleteCount, args) ==
  IF ~isArray(st.h, arr) THEN Throw(st, "type")
  ELSE Then(Alloc(st, ArrayOf(Spread(st.h, arr))),
            LAMBDA copied :
              Then(MapFreezeIfNeeded(copied, args, 1),
                   LAMBDA fa :
                     _freeze(Refill(fa, copied.r,
                                    SpliceElems(Spread(fa.h, copied.r), start, deleteCount, args)),
                             copied.r)))

(***************************************************************************)
(* Shallow merge                                                           *)
(***************************************************************************)
RECURSIVE AssocKeys(_, _, _, _, _)
\* Object.keys(obj2).reduce(...) from keys[i] on, obj the accumulator
AssocKeys(st, obj, obj2, keys, i) ==
  IF i > Len(keys) THEN Return(st, obj)
  ELSE Then(assoc(st, obj, keys[i], Get(st.h, obj2, keys[i])),
            LAMBDA s : AssocKeys(s, s.r, obj2, keys, i + 1))

singleAssign(st, obj1, obj2) ==
  IF Nullish(obj2) THEN Throw(st, "type")
  ELSE AssocKeys(st, obj1, obj2, ObjectKeys(st.h, obj2), 1)

RECURSIVE ReduceAssign(_, _, _, _)
\* the fold taking the sources from the last to the first
ReduceAssign_rightToLeft(st, obj, objs, i) ==
  IF i > Len(objs) THEN Return(st, obj)
  ELSE Then(singleAssign(st, obj, objs[Len(objs) + 1 - i]),
            LAMBDA s : ReduceAssign(s, s.r, objs, i + 1))

ReduceAssign(st, obj, objs, i) ==
  IF i > Len(objs) THEN Return(st, obj)
  ELSE Then(singleAssign(st, obj, objs[i]),
            LAMBDA s : ReduceAssign(s, s.r, objs, i + 1))

assign(st, obj, objs) ==
  Then(ReduceAssign(st, obj, objs, 1), LAMBDA s : _freeze(s, s.r))

(***************************************************************************)
(* Deep merge                                                              *)
(***************************************************************************)
assocIfDifferent(st, target, key, value) ==
  IF Get(st.h, target, key) = value THEN Return(st, target)
  ELSE assoc(st, target, key, value)

\* the resolvers handed to merge: none, or the test's concatenating resolver,
\* or one that keeps the target's value
Resolvers == {"none", "concat", "keep"}

ConcatElems(h, v) == IF isArray(h, v) THEN Spread(h, v) ELSE <<v>>

CallResolver(st, resolver, targetVal, sourceVal) ==
  CASE resolver = "concat" ->
         IF isArray(st.h, targetVal) /\ Truthy(sourceVal)
           THEN Alloc(st, ArrayOf(Spread(st.h, targetVal) \o ConcatElems(st.h, sourceVal)))
           ELSE Return(st, sourceVal)
    [] resolver = "keep" -> Return(st, targetVal)
    [] OTHER -> Return(st, sourceVal)

\* resolver ? resolver(targetVal, sourceVal, key) : sourceVal; a call is
\* logged with its arguments and its result
ApplyResolver(st, resolver, targetVal, sourceVal, key) ==
  IF resolver = "none" THEN Return(st, sourceVal)
  ELSE Then(CallResolver(st, resolver, targetVal, sourceVal),
            LAMBDA res : [res EXCEPT !.log = Append(@, <<targetVal, sourceVal, key, res.r>>)])

RECURSIVE merge(_, _, _, _), MergeKeys(_, _, _, _, _, _), MergeKey(_, _, _, _, _, _)

merge(st, target, source, resolver) ==
  IF Nullish(target) \/ Nullish(source) THEN Return(st, target)
  ELSE MergeKeys(st, target, source, resolver, ObjectKeys(st.h, source), 1)

\* Object.keys(source).reduce(...) from keys[i] on, obj the accumulator
MergeKeys(st, obj, source, resolver, keys, i) ==
  IF i > Len(keys) THEN Return(st, obj)
  ELSE Then(Then(ApplyResolver(st, resolver, Get(st.h, obj, keys[i]),
                               Get(st.h, source, keys[i]), keys[i]),
                 LAMBDA res : MergeKey(res, obj, keys[i], Get(st.h, source, keys[i]),
                                       Get(st.h, obj, keys[i]), resolver)),
            LAMBDA s : MergeKeys(s, s.r, source, resolver, keys, i + 1))

\* a reducer that uses source's value whatever the resolver returned
MergeKey_rawSource(st, obj, key, sourceVal, targetVal, resolver) ==
  IF weCareAbout(st.h, sourceVal) /\ weCareAbout(st.h, targetVal)
    THEN IF /\ sourceVal = targetVal
            /\ \/ st.prod
               \/ IsFrozen(st.h, sourceVal) /\ IsFrozen(st.h, targetVal)
           THEN Return(st, obj)
         ELSE IF isArray(st.h, sourceVal)
           THEN assoc(st, obj, key, sourceVal)
         ELSE Then(merge(st, targetVal, sourceVal, resolver),
                   LAMBDA merged : assocIfDifferent(merged, obj, key, merged.r))
    ELSE assocIfDifferent(st, obj, key, sourceVal)

\* a reducer that merges sequences like mappings
MergeKey_mergeArrays(st, obj, key, sourceVal, targetVal, resolver) ==
  IF weCareAbout(st.h, sourceVal) /\ weCareAbout(st.h, targetVal)
    THEN IF /\ st.r = targetVal
            /\ \/ st.prod
               \/ IsFrozen(st.h, st.r) /\ IsFrozen(st.h, targetVal)
           THEN Return(st, obj)
         ELSE Then(merge(st, targetVal, st.r, resolver),
                   LAMBDA merged : assocIfDifferent(merged, obj, key, merged.r))
    ELSE assocIfDifferent(st, obj, key, st.r)

\* a reducer that takes source's mapping instead of merging into target's
MergeKey_shallow(st, obj, key, sourceVal, targetVal, resolver) ==
  IF weCareAbout(st.h, sourceVal) /\ weCareAbout(st.h, targetVal)
    THEN IF /\ st.r = targetVal
            /\ \/ st.prod
               \/ IsFrozen(st.h, st.r) /\ IsFrozen(st.h, targetVal)
           THEN Return(st, obj)
         ELSE assoc(st, obj, key, st.r)
    ELSE assocIfDifferent(st, obj, key, st.r)

\* the reducer of merge once the resolver has returned st.r
MergeKey(st, obj, key, sourceVal, targetVal, resolver) ==
  IF weCareAbout(st.h, sourceVal) /\ weCareAbout(st.h, targetVal)
    THEN IF /\ st.r = targetVal
            /\ \/ st.prod
               \/ IsFrozen(st.h, st.r) /\ IsFrozen(st.h, targetVal)
           THEN Return(st, obj)
         ELSE IF isArray(st.h, sourceVal)
           THEN assoc(st, obj, key, st.r)
         ELSE Then(merge(st, targetVal, st.r, resolver),
                   LAMBDA merged : assocIfDifferent(merged, obj, key, merged.r))
    ELSE assocIfDifferent(st, obj, key, st.r)

(***************************************************************************)
(* map, filter and the chain wrapper                                       *)
(***************************************************************************)
\* a function handed over as an argument
Fn(name) == [t |-> "fn", v |-> name]
IsFn(v) == v.t = "fn"

\* arr.map(fn): same length, holes stay holes
MapObj(o, fn) ==
  [ArrayOf(<<>>) EXCEPT
     !.keys = o.keys,
     !.props = [k \in DOMAIN o.props |-> ApplyCallback(fn.v, o.props[k])],
     !.len = o.len]

map(st, fn, arr) ==
  IF ~isArray(st.h, arr) \/ ~IsFn(fn) THEN Throw(st, "type")
  ELSE Then(Alloc(st, MapObj(st.h[arr.v], fn)), LAMBDA newArr : _freeze(newArr, newArr.r))

\* the elements of arr that are not holes, in index order
PresentElems(h, arr) ==
  [i \in 1..Len(SelectSeq(h[arr.v].keys, IsIndex)) |->
     Get(h, arr, SelectSeq(h[arr.v].keys, IsIndex)[i])]

\* arr.filter(fn): the present elements fn accepts, in order
FilterElems(h, arr, fn) ==
  SelectSeq(PresentElems(h, arr), LAMBDA x : Truthy(ApplyCallback(fn.v, x)))

filter(st, fn, arr) ==
  IF ~isArray(st.h, arr) \/ ~IsFn(fn) THEN Throw(st, "type")
  ELSE Then(Alloc(st, ArrayOf(FilterElems(st.h, arr, fn))),
            LAMBDA newArr : _freeze(newArr, newArr.r))

\* the i-th argument of a call, undefined when it was not passed
Arg(args, i) == IF i <= Len(args) THEN args[i] ELSE Undef

\* icepick[methodName](...args)
Exported(st, methodName, args) ==
  CASE methodName = "freeze" -> freeze(st, Arg(args, 1))
    [] methodName = "thaw" -> thaw(st, Arg(args, 1))
    [] methodName = "assoc" -> assoc(st, Arg(args, 1), Arg(args, 2), Arg(args, 3))
    [] methodName = "dissoc" -> dissoc(st, Arg(args, 1), Arg(args, 2))
    [] methodName = "assocIn" -> assocIn(st, Arg(args, 1), Arg(args, 2), Arg(args, 3))
    [] methodName = "updateIn" -> updateIn(st, Arg(args, 1), Arg(args, 2), Arg(args, 3))
    [] methodName = "map" -> map(st, Arg(args, 1), Arg(args, 2))
    [] methodName = "filter" -> filter(st, Arg(args, 1), Arg(args, 2))
    [] OTHER -> makeArrayMethod(st, methodName, Arg(args, 1), Arg(args, 2))

\* the method generation of icepick.js: this.val first for every method
ChainMethod_valFirst(st, val, methodName, args) ==
  Exported(st, methodName, <<val>> \o args)

\* chainProto[methodName]: the new this.val is left in r
ChainMethod(st, val, methodName, args) ==
  IF methodName \in {"map", "filter"}
    THEN Exported(st, methodName, <<Arg(args, 1), val>>)
    ELSE Exported(st, methodName, <<val>> \o args)

\* the arguments written at the call site of a method or of an operation
\* after its collection: c records them by role
ArgsOf(c) ==
  CASE c.op \in {"assoc"} -> <<c.key, c.val>>
    [] c.op \in {"dissoc"} -> <<c.key>>
    [] c.op \in {"assocIn"} -> <<c.path, c.val>>
    [] c.op \in {"updateIn"} -> <<c.path, c.fn>>
    [] c.op \in {"map", "filter"} -> <<Fn(c.fn)>>
    [] c.op \in {"push", "unshift"} -> <<c.val>>
    [] OTHER -> <<>>

\* wrapped.m1(...).m2(...)...value() from the i-th method on, val the cell
RECURSIVE ChainCalls(_, _, _, _)
ChainCalls(st, val, calls, i) ==
  IF i > Len(calls) THEN Return(st, val)
  ELSE Then(ChainMethod(st, val, calls[i].op, ArgsOf(calls[i])),
            LAMBDA s : ChainCalls(s, s.r, calls, i + 1))

chain(st, val, calls) == ChainCalls(st, val, calls, 1)

(***************************************************************************)
(* Reachability through collections (what baseFreeze descends into)        *)
(***************************************************************************)
\* plain mappings and sequences, by what the object is
IsCollection(h, a) == h[a].kind \in {"obj", "nobj", "arr"}

Children(h, a) ==
  {b \in 1..Len(h) : IsCollection(h, b) /\ \E k \in DOMAIN h[a].props : h[a].props[k] = Ref(b)}

RECURSIVE Closure(_, _)
Closure(h, S) ==
  LET T == S \cup UNION {Children(h, a) : a \in S}
  IN IF T = S THEN S ELSE Closure(h, T)

\* the collections of interest reachable from collection a, a included
Reach(h, a) == Closure(h, {a})
OnCycle(h, a) == a \in Closure(h, Children(h, a))
ReachesCycle(h, a) == \E b \in Reach(h, a) : OnCycle(h, b)
Collections(h) == {a \in 1..Len(h) : IsCollection(h, a)}

(***************************************************************************)
(* The caller's data: object literals as the tests and the README build    *)
(* them, before any library call.                                          *)
(***************************************************************************)
RECURSIVE Literal(_, _)
\* an object literal: pairs of <<key, value>> assigned in order
Literal(o, pairs) ==
  IF pairs = <<>> THEN o
  ELSE Literal(SetProp(o, pairs[1][1], pairs[1][2]), Tail(pairs))

Obj(pairs) == Literal(NewObject("obj"), pairs)
Arr(pairs) == Literal(NewObject("arr"), pairs)

\* o1 = {a: 1, b: {a: 1, b: [1]}}, o2 = {a: 1, b: {a: 1, b: o1.b.b}}
SeedNested ==
  << Obj(<< <<"a", Prim(1)>>, <<"b", Ref(2)>> >>),
     Obj(<< <<"a", Prim(1)>>, <<"b", Ref(3)>> >>),
     Arr(<< <<"0", Prim(1)>> >>),
     Obj(<< <<"a", Prim(1)>>, <<"b", Ref(5)>> >>),
     Obj(<< <<"a", Prim(1)>>, <<"b", Ref(3)>> >>) >>

\* a = {}; a.a = a  and  a = {b: {}}; a.b.a = a,  and a parent of the first
SeedCyclic ==
  << Obj(<< <<"a", Ref(1)>> >>),
     Obj(<< <<"b", Ref(3)>> >>),
     Obj(<< <<"a", Ref(2)>> >>),
     Obj(<< <<"a", Ref(1)>>, <<"b", Ref(5)>> >>),
     Obj(<< >>) >>

\* one child at two sibling positions, in a mapping and in a sequence
SeedShared ==
  << Obj(<< <<"a", Ref(2)>>, <<"b", Ref(2)>> >>),
     Obj(<< <<"a", Prim(0)>> >>),
     Arr(<< <<"0", Ref(2)>>, <<"1", Ref(2)>> >>) >>

\* leaves: a class instance holding a collection, a function, null, and a
\* sparse sequence
SeedLeaves ==
  << Obj(<< <<"a", Ref(2)>>, <<"b", Ref(5)>>, <<"0", Ref(4)>> >>),
     Literal(NewObject("inst"), << <<"a", Ref(3)>> >>),
     Obj(<< <<"a", Prim(1)>>, <<"b", Null>> >>),
     NewObject("fn"),
     Arr(<< <<"0", Prim(2)>>, <<"2", Prim(0)>> >>) >>

\* sequences against mappings and sequences under the same key, and a
\* prototype-less mapping
SeedMixed ==
  << Obj(<< <<"a", Ref(2)>>, <<"b", Prim(1)>> >>),
     Arr(<< <<"0", Prim(1)>>, <<"1", Prim(2)>> >>),
     Obj(<< <<"a", Ref(4)>>, <<"b", Ref(5)>> >>),
     Obj(<< <<"b", Prim(2)>>, <<"a", Ref(6)>> >>),
     Literal(NewObject("nobj"), << <<"a", Ref(1)>> >>),
     Arr(<< <<"0", Prim(0)>> >>) >>

Seeds == {SeedNested, SeedCyclic, SeedShared, SeedLeaves, SeedMixed}

\* how many freeze() calls the caller has made on its data beforehand
MaxFrozenRoots == 2

RECURSIVE FreezeAll(_, _)
FreezeAll(st, roots) ==
  IF roots = {} THEN st
  ELSE LET a == CHOOSE x \in roots : TRUE
       IN FreezeAll(baseFreeze(st, Ref(a)), roots \ {a})

\* the heaps the caller can hold before the call under study
StartHeaps(prod) ==
  UNION {IF prod THEN {seed}
         ELSE {FreezeAll(Machine(seed, <<>>, FALSE), F).h :
                 F \in {G \in SUBSET {a \in Collections(seed) : ~ReachesCycle(seed, a)} :
                          Cardinality(G) <= MaxFrozenRoots}}
         : seed \in Seeds}

(***************************************************************************)
(* The arguments of the call under study                                   *)
(***************************************************************************)
MaxPrim == 2
MaxPathLen == 2
MaxSources == 2

ArgKeys == {"a", "b", "0"}
CollArgs == {Ref(a) : a \in Collections(heap)}
MappingArgs == {c \in CollArgs : isObjectLike(heap, c)}
ArrayArgs == {c \in CollArgs : isArray(heap, c)}
ValueArgs == {Undef, Null} \cup {Prim(n) : n \in 0..MaxPrim} \cup {Ref(a) : a \in 1..Len(heap)}
\* a sequence is addressed by index, a mapping by any key
KeysOf(c) == IF isArray(heap, c) THEN {k \in ArgKeys : IsIndex(k)} ELSE ArgKeys
SeqsUpTo(S, n) == UNION {[1..m -> S] : m \in 0..n}
PathArgs == SeqsUpTo(ArgKeys, MaxPathLen) \ {<<>>}
AcyclicArgs == {c \in CollArgs : ~ReachesCycle(heap, c.v)}

NoCall ==
  [op |-> "none", coll |-> Undef, key |-> "", path |-> <<>>, val |-> Undef,
   args |-> <<>>, fn |-> ""]

M == Machine(heap, prevNodes, isProduction)

Init ==
  /\ isProduction \in BOOLEAN
  /\ heap \in StartHeaps(isProduction)
  /\ prevNodes = <<>>
  /\ pc = "ready"
  /\ call = NoCall
  /\ ret = Undef
  /\ err = "none"
  /\ pre = M
  /\ steps = 0
  /\ log = <<>>

\* the effect of one library call: c describes it, s is the machine after it
Do(c, s) ==
  /\ pc' = "done"
  /\ call' = c
  /\ pre' = M
  /\ heap' = s.h
  /\ prevNodes' = s.pn
  /\ ret' = s.r
  /\ err' = s.err
  /\ steps' = steps + 1
  /\ log' = s.log
  /\ UNCHANGED isProduction

Freeze ==
  /\ pc = "ready"
  /\ \E v \in ValueArgs :
    Do([NoCall EXCEPT !.op = "freeze", !.coll = v], freeze(M, v))

Thaw ==
  /\ pc = "ready"
  /\ \E v \in ValueArgs :
    Do([NoCall EXCEPT !.op = "thaw", !.coll = v], thaw(M, v))

Assoc ==
  /\ pc = "ready"
  /\ \E c \in CollArgs : \E k \in KeysOf(c) : \E v \in ValueArgs :
    Do([NoCall EXCEPT !.op = "assoc", !.coll = c, !.key = k, !.val = v],
       assoc(M, c, k, v))

Dissoc ==
  /\ pc = "ready"
  /\ \E c \in CollArgs : \E k \in KeysOf(c) :
    Do([NoCall EXCEPT !.op = "dissoc", !.coll = c, !.key = k], dissoc(M, c, k))

AssocIn ==
  /\ pc = "ready"
  /\ \E c \in CollArgs : \E p \in PathArgs \cup {<<>>} : \E v \in ValueArgs :
    Do([NoCall EXCEPT !.op = "assocIn", !.coll = c, !.path = p, !.val = v],
       assocIn(M, c, p, v))

DissocIn ==
  /\ pc = "ready"
  /\ \E c \in CollArgs : \E p \in PathArgs :
    Do([NoCall EXCEPT !.op = "dissocIn", !.coll = c, !.path = p], dissocIn(M, c, p))

GetIn ==
  /\ pc = "ready"
  /\ \E c \in CollArgs : \E p \in PathArgs \cup {<<>>} :
    Do([NoCall EXCEPT !.op = "getIn", !.coll = c, !.path = p],
       Return(M, getIn(heap, c, p)))

UpdateIn ==
  /\ pc = "ready"
  /\ \E c \in CollArgs : \E p \in PathArgs \cup {<<>>} : \E cb \in Callbacks :
    /\ cb = "double" => getIn(heap, c, p).t = "prim"
    /\ Do([NoCall EXCEPT !.op = "updateIn", !.coll = c, !.path = p, !.fn = cb],
          updateIn(M, c, p, cb))

ArrayMethod ==
  /\ pc = "ready"
  /\ \E name \in MethodNames : \E c \in ArrayArgs :
    \E v \in IF name \in {"push", "unshift"} THEN ValueArgs ELSE {Undef} :
      /\ name \in {"push", "unshift"} => heap[c.v].len < Len(IndexKeys)
      /\ name = "sort" => \A k \in DOMAIN heap[c.v].props : ~IsRef(heap[c.v].props[k])
      /\ Do([NoCall EXCEPT !.op = name, !.coll = c, !.val = v],
            makeArrayMethod(M, name, c, v))

Splice ==
  /\ pc = "ready"
  /\ \E c \in ArrayArgs : \E start \in 0..1 : \E deleteCount \in 0..1 :
    \E args \in SeqsUpTo({Prim(1)} \cup CollArgs, 1) :
      /\ heap[c.v].len + Len(args) <= Len(IndexKeys)
      /\ Do([NoCall EXCEPT !.op = "splice", !.coll = c, !.args = args,
                           !.val = Prim(start), !.key = KeyOfIdx(deleteCount)],
            splice(M, c, start, deleteCount, args))

Assign ==
  /\ pc = "ready"
  /\ \E c \in MappingArgs : \E objs \in SeqsUpTo(MappingArgs, MaxSources) :
    Do([NoCall EXCEPT !.op = "assign", !.coll = c, !.args = objs], assign(M, c, objs))

\* merge recurses through the mappings of source: source is acyclic
Merge ==
  /\ pc = "ready"
  /\ \E t \in MappingArgs \cup {Undef, Null} :
    \E s \in (MappingArgs \cap AcyclicArgs) \cup {Undef, Null} :
      \E resolver \in Resolvers :
        Do([NoCall EXCEPT !.op = "merge", !.coll = t, !.val = s, !.fn = resolver],
           merge(M, t, s, resolver))

Next ==
  \/ Freeze
  \/ Thaw
  \/ Assoc
  \/ Dissoc
  \/ AssocIn
  \/ DissocIn
  \/ GetIn
  \/ UpdateIn
  \/ ArrayMethod
  \/ Splice
  \/ Assign
  \/ Merge

Spec == Init /\ [][Next]_vars

(***************************************************************************)
(* A caller making several calls in a row, with statements of its own in   *)
(* between: freeze, an assoc that freezes its value, and an assignment to  *)
(* an unfrozen mapping it holds.                                           *)
(***************************************************************************)
MaxSteps == 3

\* a = {}; a.a = a, and an empty mapping
SeedSelf ==
  << Obj(<< <<"a", Ref(1)>> >>),
     Obj(<< >>) >>

InitSeq ==
  /\ isProduction = FALSE
  /\ heap \in {SeedSelf, SeedShared}
  /\ prevNodes = <<>>
  /\ pc = "ready"
  /\ call = NoCall
  /\ ret = Undef
  /\ err = "none"
  /\ pre = M
  /\ steps = 0
  /\ log = <<>>

FreezeNext ==
  /\ steps < MaxSteps
  /\ \E c \in CollArgs :
    Do([NoCall EXCEPT !.op = "freeze", !.coll = c], freeze(M, c))

AssocNext ==
  /\ steps < MaxSteps
  /\ \E c \in MappingArgs : \E v \in CollArgs :
    Do([NoCall EXCEPT !.op = "assoc", !.coll = c, !.key = "a", !.val = v],
       assoc(M, c, "a", v))

\* c[k] = v in the caller's code; nothing happens to a frozen c
CallerAssign ==
  /\ steps < MaxSteps
  /\ \E c \in MappingArgs : \E k \in {"a", "b"} : \E v \in {Prim(1)} \cup CollArgs :
    /\ ~IsFrozen(heap, c)
    /\ heap' = Store(M, c, k, v).h
    /\ pc' = "ready"
    /\ steps' = steps + 1
    /\ UNCHANGED <<prevNodes, isProduction, call, ret, err, pre, log>>

ThawNext ==
  /\ steps < MaxSteps
  /\ \E c \in CollArgs :
    Do([NoCall EXCEPT !.op = "thaw", !.coll = c], thaw(M, c))

NextSeq ==
  \/ FreezeNext
  \/ AssocNext
  \/ CallerAssign
  \/ ThawNext

SpecSeq == InitSeq /\ [][NextSeq]_vars

(***************************************************************************)
(* A caller chaining methods on a wrapped collection, and calling map and  *)
(* filter directly.                                                        *)
(***************************************************************************)
MaxChain == 2

IterFns == {"identity", "one"}

\* the methods chained on a mapping and on a sequence, with their arguments
MethodCalls(x) ==
  {[NoCall EXCEPT !.op = m] : m \in {"freeze", "thaw"}}
  \cup {[NoCall EXCEPT !.op = "assoc", !.key = k, !.val = v] :
          k \in KeysOf(x), v \in {Prim(1), x}}
  \cup {[NoCall EXCEPT !.op = "dissoc", !.key = k] : k \in KeysOf(x) \ {"b"}}
  \cup IF isArray(heap, x)
         THEN {[NoCall EXCEPT !.op = "push", !.val = Prim(0)],
               [NoCall EXCEPT !.op = "reverse"]}
              \cup {[NoCall EXCEPT !.op = m, !.fn = f] :
                      m \in {"map", "filter"}, f \in IterFns}
         ELSE {[NoCall EXCEPT !.op = "assocIn", !.path = <<"a", "b">>, !.val = Prim(1)],
               [NoCall EXCEPT !.op = "updateIn", !.path = <<"a">>, !.fn = "one"]}

InitChain ==
  /\ isProduction \in BOOLEAN
  /\ heap \in {SeedNested, SeedLeaves, SeedMixed}
  /\ prevNodes = <<>>
  /\ pc = "ready"
  /\ call = NoCall
  /\ ret = Undef
  /\ err = "none"
  /\ pre = M
  /\ steps = 0
  /\ log = <<>>

Chain ==
  /\ pc = "ready"
  /\ \E x \in CollArgs : \E calls \in SeqsUpTo(MethodCalls(x), MaxChain) :
    Do([NoCall EXCEPT !.op = "chain", !.coll = x, !.args = calls], chain(M, x, calls))

Map ==
  /\ pc = "ready"
  /\ \E c \in ArrayArgs : \E f \in IterFns :
    Do([NoCall EXCEPT !.op = "map", !.coll = c, !.fn = f], map(M, Fn(f), c))

Filter ==
  /\ pc = "ready"
  /\ \E c \in ArrayArgs : \E f \in IterFns :
    Do([NoCall EXCEPT !.op = "filter", !.coll = c, !.fn = f], filter(M, Fn(f), c))

NextChain ==
  \/ Chain
  \/ Map
  \/ Filter

SpecChain == InitChain /\ [][NextChain]_vars

(***************************************************************************)
(* Properties.  In a state with pc = "done", call is the call just made,   *)
(* pre the machine it started from, heap/prevNodes/ret/err its outcome.    *)
(***************************************************************************)
Called(op) == pc = "done" /\ call.op = op
Returned(op) == Called(op) /\ err = "none"
UpdateOps == {"assoc", "dissoc", "assocIn", "dissocIn", "updateIn", "assign", "merge"}
ArrayOps == MethodNames \cup {"splice"}

RECURSIVE StoredAlready(_, _, _, _)
\* every value assocIn(coll, path, v) would write is the one already stored:
\* each intermediate exists (is truthy) and the last key holds v
StoredAlready(h, coll, path, v) ==
  IF Len(path) = 0 THEN FALSE
  ELSE IF Len(path) = 1 THEN Get(h, coll, path[1]) = v
  ELSE /\ Truthy(Get(h, coll, path[1]))
       /\ StoredAlready(h, Get(h, coll, path[1]), Tail(path), v)

\* every key of every source holds the value coll already holds
AssignsNothingNew(h, coll, objs) ==
  \A i \in 1..Len(objs) : \A k \in Range(ObjectKeys(h, objs[i])) :
    Get(h, objs[i], k) = Get(h, coll, k)

SameContents(o1, o2) == o1.props = o2.props /\ o1.len = o2.len

\* C2: no update operation changes the contents of its input: the first
\* argument and every collection reachable from it keep their own keys and
\* values (whether the call returns or throws).
C2_InputUnchanged ==
  pc = "done" /\ call.op \in UpdateOps \cup ArrayOps /\ IsRef(call.coll)
    => \A a \in Reach(pre.h, call.coll.v) : SameContents(pre.h[a], heap[a])

\* a dissoc, a push and a merge that changed something have returned new
\* collections
C2_Witness ==
  \/ /\ Returned("dissoc") /\ HasOwn(pre.h, call.coll, call.key)
     /\ ~HasOwn(heap, ret, call.key) /\ HasOwn(heap, call.coll, call.key)
  \/ /\ Returned("sort") /\ Spread(heap, ret) # Spread(heap, call.coll)
  \/ /\ Returned("merge") /\ IsRef(ret) /\ ret # call.coll
     /\ Cardinality(Reach(pre.h, call.coll.v)) > 1

RECURSIVE SharesStructure(_, _, _, _, _, _)
\* along path, res (in heap h1) keeps every other own key of orig (in heap
\* h0); if changed, each collection on the path is a newly made object
SharesStructure(h0, h1, orig, res, path, changed) ==
  /\ \A k \in Range(ObjectKeys(h0, orig)) \ {path[1]} :
       HasOwn(h1, res, k) /\ Get(h1, res, k) = Get(h0, orig, k)
  /\ changed /\ IsRef(orig) /\ IsCollection(h0, orig.v)
       => IsRef(res) /\ res.v > Len(h0)
  /\ Len(path) > 1
       => SharesStructure(h0, h1, Get(h0, orig, path[1]), Get(h1, res, path[1]),
                          Tail(path), changed)

\* C3: structural sharing. For assocIn(coll, path, v) (assoc is the path of
\* length 1), at every level along the path every own key other than the path
\* key keeps its reference-identical value, and when the value at the path
\* changes every collection on the path is a new object in the result.
C3_StructuralSharing ==
  /\ Returned("assocIn")
       => SharesStructure(pre.h, heap, call.coll, ret, call.path,
                          getIn(pre.h, call.coll, call.path) # call.val)
  /\ Returned("assoc")
       => SharesStructure(pre.h, heap, call.coll, ret, <<call.key>>,
                          Get(pre.h, call.coll, call.key) # call.val)

\* an assocIn two levels deep changed a value below a collection that has a
\* sibling collection
C3_Witness ==
  /\ Returned("assocIn") /\ Len(call.path) = 2
  /\ getIn(pre.h, call.coll, call.path) # call.val
  /\ IsRef(Get(pre.h, call.coll, call.path[1]))
  /\ IsCollection(pre.h, Get(pre.h, call.coll, call.path[1]).v)
  /\ \E k \in Range(ObjectKeys(pre.h, call.coll)) \ {call.path[1]} :
       IsRef(Get(pre.h, call.coll, k))
  /\ \E k \in Range(ObjectKeys(pre.h, Get(pre.h, call.coll, call.path[1]))) :
       k # call.path[2]

\* C4: in non-production mode freeze(x) on an acyclic collection x returns x,
\* x and every collection reachable from it through collections is frozen, and
\* nothing else (a leaf inside it, what only a leaf refers to) changes its
\* frozen state.
C4_DeepFreeze ==
  Called("freeze") /\ ~isProduction /\ IsRef(call.coll)
  /\ IsCollection(pre.h, call.coll.v) /\ ~ReachesCycle(pre.h, call.coll.v)
    => /\ err = "none"
       /\ ret = call.coll
       /\ \A a \in Reach(pre.h, call.coll.v) : heap[a].frozen
       /\ \A a \in (1..Len(heap)) \ Reach(pre.h, call.coll.v) :
            heap[a].frozen = pre.h[a].frozen

\* freeze returned on a collection holding a class instance that itself holds
\* an unfrozen collection
C4_Witness ==
  /\ Returned("freeze") /\ ~isProduction /\ IsRef(call.coll)
  /\ \E k \in DOMAIN heap[call.coll.v].props :
       LET leaf == heap[call.coll.v].props[k]
       IN /\ IsRef(leaf) /\ heap[leaf.v].kind = "inst" /\ ~heap[leaf.v].frozen
          /\ \E j \in DOMAIN heap[leaf.v].props :
               /\ IsRef(heap[leaf.v].props[j])
               /\ IsCollection(heap, heap[leaf.v].props[j].v)
               /\ ~heap[heap[leaf.v].props[j].v].frozen
  /\ \E a \in Reach(pre.h, call.coll.v) : a # call.coll.v /\ ~pre.h[a].frozen

\* C5: cycle rejection. In non-production mode freeze(x) raises the cycle
\* error for every collection x reachable from itself through collections.
C5_CycleRejection ==
  Called("freeze") /\ ~isProduction /\ IsRef(call.coll)
  /\ IsCollection(pre.h, call.coll.v) /\ OnCycle(pre.h, call.coll.v)
    => err = "cycle"

\* freeze was called on a collection that is on a cycle through another one
C5_Witness ==
  /\ Called("freeze") /\ ~isProduction /\ IsRef(call.coll)
  /\ IsCollection(pre.h, call.coll.v) /\ OnCycle(pre.h, call.coll.v)
  /\ Get(pre.h, call.coll, "a") # call.coll /\ Get(pre.h, call.coll, "b") # call.coll
  /\ err = "cycle"

\* the value a call hands to the freezing code
FrozenArg == IF call.op = "freeze" THEN call.coll ELSE call.val

\* C6: the ancestor list is reset per top-level call: it is empty whenever a
\* freeze, or an assoc that freezes its value, starts, whatever calls came
\* before; so the cycle error is raised only when a collection being frozen
\* is its own ancestor, and a collection holding one nested collection at
\* two sibling positions freezes without error.
C6_AncestorListReset ==
  pc = "done" /\ call.op \in {"freeze", "assoc"}
    => /\ pre.pn = <<>>
       /\ err = "cycle" => IsRef(FrozenArg) /\ ReachesCycle(pre.h, FrozenArg.v)

\* C7: in non-production mode every update operation returns a frozen root
\* collection, whether its inputs were frozen or not and also when it changes
\* nothing.
C7_ResultFrozen ==
  pc = "done" /\ call.op \in UpdateOps /\ ~isProduction /\ err = "none"
  /\ IsRef(ret) /\ IsCollection(heap, ret.v)
    => IsFrozen(heap, ret)

IsMapping(h, v) == IsRef(v) /\ h[v.v].kind \in {"obj", "nobj"}
IsSequence(h, v) == IsRef(v) /\ h[v.v].kind = "arr"
IsCollectionValue(h, v) == IsMapping(h, v) \/ IsSequence(h, v)

RECURSIVE RefMerge(_, _, _, _, _)
\* res (in heap h1) is the reference deep merge of target and source (in h0)
RefMerge(h0, h1, target, source, res) ==
  IF Nullish(target) \/ Nullish(source) THEN res = target
  ELSE /\ Range(ObjectKeys(h1, res))
            = Range(ObjectKeys(h0, target)) \cup Range(ObjectKeys(h0, source))
       /\ \A k \in Range(ObjectKeys(h0, target)) \ Range(ObjectKeys(h0, source)) :
            Get(h1, res, k) = Get(h0, target, k)
       /\ \A k \in Range(ObjectKeys(h0, source)) :
            IF IsMapping(h0, Get(h0, source, k)) /\ IsMapping(h0, Get(h0, target, k))
              THEN RefMerge(h0, h1, Get(h0, target, k), Get(h0, source, k), Get(h1, res, k))
            ELSE IF IsMapping(h0, Get(h0, source, k)) /\ IsSequence(h0, Get(h0, target, k))
              THEN TRUE   \* a mapping met by a sequence: not covered
            ELSE Get(h1, res, k) = Get(h0, source, k)

RECURSIVE SameAs(_, _, _, _)
\* every value of source equals target's: leaves identical, collections
\* reference-equal and frozen (or just reference-equal in production mode),
\* mappings otherwise compared level by level
SameAs(h, target, source, prod) ==
  \A k \in Range(ObjectKeys(h, source)) :
    \/ /\ Get(h, source, k) = Get(h, target, k)
       /\ HasOwn(h, target, k)
       /\ \/ ~IsCollectionValue(h, Get(h, source, k))
          \/ prod
          \/ IsFrozen(h, Get(h, source, k))
    \/ /\ IsMapping(h, Get(h, source, k)) /\ IsMapping(h, Get(h, target, k))
       /\ SameAs(h, Get(h, target, k), Get(h, source, k), prod)

\* C9: merge identity preservation. When every value in source, at every
\* mapping level, equals the corresponding value in target, merge(target,
\* source) returns target itself with every nested collection as it was, in
\* non-production and in production mode.
C9_MergeIdentity ==
  Called("merge") /\ call.fn = "none" /\ IsRef(call.coll) /\ IsRef(call.val)
  /\ SameAs(pre.h, call.coll, call.val, isProduction)
    => /\ err = "none"
       /\ ret = call.coll
       /\ \A a \in Reach(pre.h, call.coll.v) : SameContents(pre.h[a], heap[a])

\* merge returned target for a frozen source that is another object holding
\* another, equal nested mapping
C9_Witness ==
  /\ Returned("merge") /\ call.fn = "none" /\ IsRef(call.coll) /\ IsRef(call.val)
  /\ ~isProduction
  /\ call.coll # call.val
  /\ SameAs(pre.h, call.coll, call.val, isProduction)
  /\ \E k \in Range(ObjectKeys(pre.h, call.val)) :
       /\ IsMapping(pre.h, Get(pre.h, call.val, k))
       /\ Get(pre.h, call.val, k) # Get(pre.h, call.coll, k)
       /\ \E j \in Range(ObjectKeys(pre.h, Get(pre.h, call.val, k))) :
            IsSequence(pre.h, Get(pre.h, Get(pre.h, call.val, k), j))
  /\ ret = call.coll

RECURSIVE ThawedCopy(_, _, _, _)
\* res (in heap h1) is a thawed copy of the frozen collection x (in heap h0):
\* a new unfrozen object with the same own keys and length, collections
\* copied in turn, leaves identical
ThawedCopy(h0, h1, x, res) ==
  /\ IsRef(res) /\ res.v > Len(h0)
  /\ ~IsFrozen(h1, res)
  /\ Range(ObjectKeys(h1, res)) = Range(ObjectKeys(h0, x))
  /\ h1[res.v].len = h0[x.v].len
  /\ \A k \in Range(ObjectKeys(h0, x)) :
       IF IsCollectionValue(h0, Get(h0, x, k))
         THEN ThawedCopy(h0, h1, Get(h0, x, k), Get(h1, res, k))
         ELSE Get(h1, res, k) = Get(h0, x, k)

DeepFrozen(h, v) ==
  IsCollectionValue(h, v) /\ \A a \in Reach(h, v.v) : h[a].frozen

\* C11: thaw round trip. For any acyclic deep-frozen x, thaw(x) has the same
\* own keys and equal values at every level, none of its collections is
\* frozen, each is a different object from the one in x, and every leaf is
\* reference-identical to the one in x.
C11_ThawRoundTrip ==
  Called("thaw") /\ DeepFrozen(pre.h, call.coll)
    => err = "none" /\ ThawedCopy(pre.h, heap, call.coll, ret)

RECURSIVE Unresolved(_, _, _)
\* coll does not own path[1], or a nested collection reached along path does
\* not own the next key
Unresolved(h, coll, path) ==
  \/ ~HasOwn(h, coll, path[1])
  \/ /\ Len(path) > 1
     /\ IsCollectionValue(h, Get(h, coll, path[1]))
     /\ Unresolved(h, Get(h, coll, path[1]), Tail(path))

\* C12: dissocIn is a no-op on a path that does not resolve: when coll does
\* not own path[0], or a nested collection along the path does not own the
\* next key, dissocIn(coll, path) returns the reference coll and creates no
\* collection.
C12_DissocInNoOp ==
  Called("dissocIn") /\ Unresolved(pre.h, call.coll, call.path)
    => err = "none" /\ ret = call.coll /\ Len(heap) = Len(pre.h)

\* an unfrozen collection holding a cycle, which non-production freezing rejects
RejectedValue(h, v, prod) ==
  ~prod /\ IsCollectionValue(h, v) /\ ~IsFrozen(h, v) /\ ReachesCycle(h, v.v)

RECURSIVE Dangling(_, _, _)
\* a prefix of path leads to a missing key, null, undefined or a leaf
Dangling(h, coll, path) ==
  \/ ~HasOwn(h, coll, path[1])
  \/ /\ Len(path) > 1
     /\ \/ ~IsCollectionValue(h, Get(h, coll, path[1]))
        \/ Dangling(h, Get(h, coll, path[1]), Tail(path))

\* what assocIn / updateIn was asked to store
StoredValue ==
  IF call.op = "updateIn"
    THEN ApplyCallback(call.fn, getIn(pre.h, call.coll, call.path))
    ELSE call.val

\* C13: path operations never raise on a path that does not resolve. For a
\* path whose prefix leads to a missing key, null, undefined or a leaf, getIn
\* returns undefined, assocIn and updateIn create the missing intermediates
\* and store the value, dissocIn returns its input unchanged; none raises.
C13_PathsNeverRaise ==
  pc = "done" /\ call.op \in {"getIn", "assocIn", "updateIn", "dissocIn"}
  /\ Len(call.path) >= 1 /\ Dangling(pre.h, call.coll, call.path)
    => /\ \/ /\ call.op \in {"assocIn", "updateIn"}
             /\ RejectedValue(pre.h, StoredValue, isProduction)
          \/ err = "none"
       /\ Returned("getIn") => ret = Undef
       /\ Returned("assocIn") \/ Returned("updateIn")
            => getIn(heap, ret, call.path) = StoredValue
       /\ Returned("dissocIn")
            => /\ ret = call.coll
               /\ SameContents(pre.h[call.coll.v], heap[call.coll.v])

\* the call ended as the machine a did: same result or exception, same heap
SameOutcome(a) == ret = a.r /\ err = a.err /\ heap = a.h /\ prevNodes = a.pn

RECURSIVE MappingChain(_, _, _, _)
\* m is a plain mapping owning nothing but path[1], leading to v along path
MappingChain(h, m, path, v) ==
  /\ IsRef(m) /\ h[m.v].kind = "obj"
  /\ Range(ObjectKeys(h, m)) \subseteq {path[1]}
  /\ IF Len(path) = 1 THEN Get(h, m, path[1]) = v
     ELSE MappingChain(h, Get(h, m, path[1]), Tail(path), v)

RECURSIVE Synthesized(_, _, _, _, _, _)
\* below the first missing (falsy) intermediate of orig along path, res holds
\* a chain of new mappings
Synthesized(h0, h1, orig, res, path, v) ==
  Len(path) > 1
    => IF Truthy(Get(h0, orig, path[1]))
         THEN Synthesized(h0, h1, Get(h0, orig, path[1]), Get(h1, res, path[1]),
                          Tail(path), v)
         ELSE /\ MappingChain(h1, Get(h1, res, path[1]), Tail(path), v)
              /\ Get(h1, res, path[1]).v > Len(h0)

RECURSIVE LastValue(_, _, _, _)
\* the value of key k from the last of objs that owns it, else from coll
LastValue(h, coll, objs, k) ==
  IF objs = <<>> THEN Get(h, coll, k)
  ELSE IF HasOwn(h, objs[Len(objs)], k) THEN Get(h, objs[Len(objs)], k)
  ELSE LastValue(h, coll, SubSeq(objs, 1, Len(objs) - 1), k)

AllKeys(h, coll, objs) ==
  Range(ObjectKeys(h, coll)) \cup UNION {Range(ObjectKeys(h, objs[i])) : i \in 1..Len(objs)}

ResolvedUsed(k, tv, sv, r) ==
  IF ~(weCareAbout(heap, sv) /\ weCareAbout(heap, tv)) \/ isArray(heap, sv)
    THEN Get(heap, ret, k) = r
  ELSE IF isArray(heap, tv) THEN TRUE
  ELSE /\ weCareAbout(heap, Get(heap, ret, k))
       /\ \A k2 \in Range(ObjectKeys(heap, tv)) :
            (r.t = "ref" => ~HasOwn(heap, r, k2))
              => Get(heap, Get(heap, ret, k), k2) = Get(heap, tv, k2)

\* the log indices at which the resolver calls of merge(t, s) for the keys
\* ks[j], ks[j+1], ... can end when they start at index i: one call per key,
\* with (t[key], s[key], key), followed by the calls of the nested merge of
\* t[key] with the resolver's result when both values are collections and
\* source's is not a sequence
RECURSIVE LevelCalls(_, _, _, _, _, _), LevelOf(_, _, _), AfterCall(_, _, _, _)
LevelCalls(i, t, s, ks, j, top) ==
  IF j > Len(ks) THEN {i}
  ELSE IF i > Len(log) THEN {}
  ELSE IF \/ Len(log[i]) # 4
          \/ log[i][1] # Get(heap, t, ks[j])
          \/ log[i][2] # Get(heap, s, ks[j])
          \/ log[i][3] # ks[j]
          \/ top /\ ~ResolvedUsed(ks[j], log[i][1], log[i][2], log[i][4])
    THEN {}
  ELSE UNION {LevelCalls(n, t, s, ks, j + 1, top) :
                n \in AfterCall(i + 1, log[i][1], log[i][2], log[i][4])}

LevelOf(i, t, s) ==
  IF Nullish(t) \/ Nullish(s) \/ s.t # "ref" THEN {i}
  ELSE LevelCalls(i, t, s, ObjectKeys(heap, s), 1, FALSE)

\* a result identical to the target's value may be taken without merging
AfterCall(i, tv, sv, r) ==
  IF ~(weCareAbout(heap, sv) /\ weCareAbout(heap, tv)) \/ isArray(heap, sv) THEN {i}
  ELSE (IF r = tv THEN {i} ELSE {}) \cup LevelOf(i, tv, r)

ResolverSupplied ==
  Returned("merge") /\ call.fn # "none" /\ ~Nullish(call.coll) /\ ~Nullish(call.val)

\* C18: when a resolver is supplied to merge, it is called once for every own
\* key of source at every merged level with (the target's value at the key,
\* source's value at the key, the key), and what it returns is what merge
\* uses for the key: stored when a side is a leaf or source's value is a
\* sequence, merged into the target's value when both are mappings.
C18_ResolverPerKey ==
  ResolverSupplied
    => Len(log) + 1 \in LevelCalls(1, call.coll, call.val,
                                   ObjectKeys(heap, call.val), 1, TRUE)

\* merge returned after resolver calls at two levels, one of which returned
\* something else than source's value
C18_Witness ==
  /\ ResolverSupplied
  /\ Len(log) > Len(ObjectKeys(heap, call.val))
  /\ \E i \in 1..Len(log) : log[i][4] # log[i][2]
  /\ ret # call.coll

\* the argument list of the direct call of a chained method on x
DirectArgs(c, x) ==
  IF c.op \in {"map", "filter"} THEN <<Fn(c.fn), x>> ELSE <<x>> \o ArgsOf(c)

\* opN(...op1(x, a1)..., aN) for the first n of the calls
RECURSIVE Nested(_, _, _, _)
Nested(st, x, calls, n) ==
  IF n = 0 THEN Return(st, x)
  ELSE Then(Nested(st, x, calls, n - 1),
            LAMBDA s : Exported(s, calls[n].op, DirectArgs(calls[n], s.r)))

C20_ProductionNoFreeze ==
  pc = "done" /\ isProduction
    => /\ \A a \in 1..Len(heap) :
            heap[a].frozen = (IF a <= Len(pre.h) THEN pre.h[a].frozen ELSE FALSE)
       /\ call.op = "freeze" => ret = call.coll /\ err = "none"

\* in production mode an update stored an unfrozen collection in a new result
C20_Witness ==
  /\ isProduction /\ Returned("assoc")
  /\ weCareAbout(pre.h, call.val) /\ ~IsFrozen(pre.h, call.val)
  /\ ret # call.coll /\ ret.v > Len(pre.h)
  /\ Get(heap, ret, call.key) = call.val
  /\ ~IsFrozen(heap, ret) /\ ~IsFrozen(heap, call.val)

\* no call changed the frozen state of an object that existed before it
FrozenStateKept == \A a \in 1..Len(pre.h) : heap[a].frozen = pre.h[a].frozen

\* C21: freeze applied to a non-collection value (null, undefined, a
\* primitive, a date, a function, a class instance) or to an already
\* deep-frozen acyclic collection is a no-op: it returns the same reference,
\* raises no error and changes no object's frozen state.
C21_FreezeNoOp ==
  Called("freeze")
  /\ \/ ~IsCollectionValue(pre.h, call.coll)
     \/ DeepFrozen(pre.h, call.coll) /\ ~ReachesCycle(pre.h, call.coll.v)
    => err = "none" /\ ret = call.coll /\ FrozenStateKept

\* C22: no partial-failure states. When freeze, or an update operation that
\* must freeze a newly assigned value, fails with the cycle error, every
\* collection has the frozen state, keys and values it had before the call,
\* and the cycle-detection list is as it was before the call.
C22_NoPartialFailure ==
  pc = "done" /\ err = "cycle"
    => /\ \A a \in 1..Len(pre.h) : heap[a] = pre.h[a]
       /\ prevNodes = pre.pn

\* C23: any update operation (assoc, dissoc, assocIn, dissocIn, updateIn,
\* assign, merge) whose result has exactly the own keys and values of its
\* input returns the input reference itself and not a clone, dissoc of a key
\* the collection does not own included.
C23_UnchangedIsSameReference ==
  pc = "done" /\ call.op \in UpdateOps /\ err = "none"
  /\ IsRef(call.coll) /\ IsRef(ret)
  /\ SameContents(pre.h[call.coll.v], heap[ret.v])
    => ret = call.coll

\* one of tv, sv is a sequence and the other a mapping
SequenceVsMapping(h, tv, sv) ==
  \/ IsSequence(h, tv) /\ IsMapping(h, sv)
  \/ IsMapping(h, tv) /\ IsSequence(h, sv)

\* C24: merge recurses only through mapping-vs-mapping pairs: when at some
\* key the target value is a sequence and the source value is a mapping (or
\* the reverse), the source value wholly replaces the target value, so the
\* result at that key never mixes the elements of the one with the keys of
\* the other.
C24_MergeKindConflict ==
  Returned("merge") /\ call.fn = "none" /\ IsRef(call.coll) /\ IsRef(call.val)
    => \A k \in Range(ObjectKeys(pre.h, call.val)) :
         SequenceVsMapping(pre.h, Get(pre.h, call.coll, k), Get(pre.h, call.val, k))
           => Get(heap, ret, k) = Get(pre.h, call.val, k)

\* the call c made on the machine st
Recall(st, c) ==
  CASE c.op = "assoc" -> assoc(st, c.coll, c.key, c.val)
    [] c.op = "dissoc" -> dissoc(st, c.coll, c.key)
    [] c.op = "assocIn" -> assocIn(st, c.coll, c.path, c.val)
    [] c.op = "dissocIn" -> dissocIn(st, c.coll, c.path)
    [] c.op = "getIn" -> Return(st, getIn(st.h, c.coll, c.path))
    [] c.op = "updateIn" -> updateIn(st, c.coll, c.path, c.fn)
    [] c.op = "assign" -> assign(st, c.coll, c.args)
    [] c.op = "merge" -> merge(st, c.coll, c.val, c.fn)
    [] OTHER -> thaw(st, c.coll)

\* v1 in heap h1 and v2 in heap h2 have the same keys and values at every
\* level; leaves are compared by identity
RECURSIVE DeepEqual(_, _, _, _)
DeepEqual(h1, v1, h2, v2) ==
  IF IsCollectionValue(h1, v1) /\ IsCollectionValue(h2, v2)
    THEN /\ isArray(h1, v1) = isArray(h2, v2)
         /\ h1[v1.v].len = h2[v2.v].len
         /\ DOMAIN h1[v1.v].props = DOMAIN h2[v2.v].props
         /\ \A k \in DOMAIN h1[v1.v].props :
              DeepEqual(h1, Get(h1, v1, k), h2, Get(h2, v2, k))
    ELSE v1 = v2

\* no argument of the call holds a reference cycle
AcyclicCall ==
  \A v \in {call.coll, call.val} \cup Range(call.args) :
    IsRef(v) => ~ReachesCycle(pre.h, v.v)

ModeOps == UpdateOps \cup {"getIn", "thaw"}

\* the same call made in production mode on the same data
InProduction == Recall([pre EXCEPT !.prod = TRUE], call)

\* C25: production mode changes only frozen flags: for every operation
\* (assoc, dissoc, assocIn, dissocIn, getIn, updateIn, assign, merge with or
\* without a resolver, thaw) and every acyclic input, frozen or unfrozen, the
\* result computed in production mode is deeply equal in keys and values to
\* the result computed in non-production mode.
C25_ProductionSameResult ==
  pc = "done" /\ ~isProduction /\ call.op \in ModeOps /\ AcyclicCall
    => /\ InProduction.err = err
       /\ DeepEqual(heap, ret, InProduction.h, InProduction.r)

\* a value argument the closure accepts: not a collection, or an acyclic
\* collection that is deep-frozen or has an unfrozen root
ClosureValue(h, v) ==
  IsCollectionValue(h, v)
    => ~ReachesCycle(h, v.v) /\ (DeepFrozen(h, v) \/ ~IsFrozen(h, v))

\* the values the call hands over besides its collection
ValuesOfCall ==
  CASE call.op \in {"assoc", "assocIn", "merge"} -> {call.val}
    [] call.op = "assign" -> Range(call.args)
    [] OTHER -> {}

\* C26: deep-frozen closure. In non-production mode, starting from freeze(x)
\* and applying assoc, dissoc, assocIn, dissocIn, updateIn, assign and merge
\* with value arguments that are acyclic and either deep-frozen or have an
\* unfrozen root, every collection reachable from every result is frozen:
\* each operation takes a deep-frozen collection to a deep-frozen result.
C26_DeepFrozenClosure ==
  pc = "done" /\ ~isProduction /\ call.op \in UpdateOps /\ err = "none"
  /\ DeepFrozen(pre.h, call.coll)
  /\ (\A v \in ValuesOfCall : ClosureValue(pre.h, v))
    => DeepFrozen(heap, ret)

\* the collection of the call is not part of a value the call stores
NotAmongValues ==
  \A v \in ValuesOfCall : IsRef(v) => call.coll.v \notin Reach(pre.h, v.v)

\* C27: no update operation changes the frozen state of the collection passed
\* as its first argument: a collection that is unfrozen before assoc, dissoc,
\* assocIn, dissocIn, updateIn, assign or merge is called on it is still
\* unfrozen afterwards.
C27_InputStaysUnfrozen ==
  pc = "done" /\ call.op \in UpdateOps /\ err = "none"
  /\ IsCollectionValue(pre.h, call.coll) /\ ~IsFrozen(pre.h, call.coll)
  /\ NotAmongValues
    => ~IsFrozen(heap, call.coll)

\* C28: assocIn and updateIn terminate for every collection and every path,
\* the empty path included: the recursion on the rest of the path comes to
\* an end.
C28_PathRecursionEnds ==
  pc = "done" /\ call.op \in {"assocIn", "updateIn"} => err # "stack"

\* C29: after assoc(coll, key, value) the key is an own property of the
\* result for every value, undefined on a key coll does not own included.
C29_AssocOwnsKey ==
  Returned("assoc") => HasOwn(heap, ret, call.key)

\* the frozen collections a frozen collection holds
FrozenChildren(h, a) == {b \in Children(h, a) : h[b].frozen}

RECURSIVE FrozenClosure(_, _)
FrozenClosure(h, S) ==
  IF S \cup UNION {FrozenChildren(h, a) : a \in S} = S THEN S
  ELSE FrozenClosure(h, S \cup UNION {FrozenChildren(h, a) : a \in S})

\* a is a frozen collection on a reference cycle made of frozen collections
OnFrozenCycle(h, a) ==
  IsCollection(h, a) /\ h[a].frozen /\ a \in FrozenClosure(h, FrozenChildren(h, a))

\* C30: thaw never fails on cycles: whatever library calls were made on the
\* data (freeze calls that failed with the cycle error and updates of
\* unfrozen cyclic input included), no frozen collection lies on a reference
\* cycle made of frozen collections, so thaw terminates.
C30_ThawTerminates ==
  /\ \A a \in 1..Len(heap) : ~OnFrozenCycle(heap, a)
  /\ Called("thaw") => err # "stack"

\* C10, as stated: for any collection coll, any path of length >= 1 and any
\* value v, assocIn returns and getIn(assocIn(coll, path, v), path) === v.
C10_RoundTripAnyValue ==
  Called("assocIn") /\ Len(call.path) >= 1 => err = "none" /\ getIn(heap, ret, call.path) = call.val

\* C10: assocIn/getIn round trip. For any collection coll, any path of
\* length >= 1 (through missing, null or leaf intermediates too) and any value
\* v that is not an unfrozen collection holding a cycle in non-production
\* mode, assocIn returns and getIn(assocIn(coll, path, v), path) === v; the
\* round trip also holds whenever assocIn returns.
C10_AssocInGetInRoundTrip ==
  Called("assocIn") /\ Len(call.path) >= 1
    => /\ ~RejectedValue(pre.h, call.val, isProduction) => err = "none"
       /\ err = "none" => getIn(heap, ret, call.path) = call.val

\* assocIn returned after writing a collection below a null or leaf
\* intermediate
C10_Witness ==
  /\ Returned("assocIn") /\ Len(call.path) = 2
  /\ HasOwn(pre.h, call.coll, call.path[1])
  /\ ~IsCollectionValue(pre.h, Get(pre.h, call.coll, call.path[1]))
  /\ IsCollectionValue(pre.h, call.val)
  /\ getIn(heap, ret, call.path) = call.val

====
